---- MODULE Spec2Model ----
(***************************************************************************)
(* A model of scripts/gh-watch-run.py: trigger a GitHub Actions workflow   *)
(* run, locate it in the run listing, poll it until it is completed        *)
(* (cancelling it as soon as a job fails), then collect the run snapshot,  *)
(* the job logs and the artifacts, and map the outcome to an exit status.  *)
(*                                                                         *)
(* The provider (the gh CLI) is the environment: every call may fail       *)
(* (subprocess.CalledProcessError from run_cmd, check=True) or return any  *)
(* response of its response set.                                           *)
(***************************************************************************)
EXTENDS Integers, Sequences, FiniteSets, TLC

VARIABLES
    pc,               \* position of the process in main()
    args,             \* parsed command line: [run_id, ref]
    now,              \* the instant main() starts at, in clock ticks
    remote,           \* the provider's runs of the workflow on the ref
    start_ts,         \* main: start_ts (ISO string), NoTimestamp before capture
    run_id,           \* main: run_id
    runs,             \* wait_for_run_id: the listing last returned
    run,              \* the snapshot last returned by get_run
    conclusion,       \* main: conclusion of the snapshot last polled by the loop
    failure_detected, \* main: failure_detected
    jobIdx,           \* download_logs_and_artifacts: position of the job loop
    dirs,             \* directories created under the output root
    files,            \* files written to the output directory
    artifacts,        \* outcome of the artifact download
    summary,          \* the summary line printed by main
    exc,              \* the exception that left main, if any
    exitStatus,       \* the process exit status, Running until it exits
    trace,            \* provider calls and sleeps made so far, in order
    observed,         \* what the snapshots polled by the loop contained
    runJson,          \* content of run.json, NoSnapshot while it is not written
    stable,           \* provider: a completed run does not change any more
    settled,          \* provider: the snapshot a stable run has settled on
    invocation,       \* how many times the program was started on the output root
    attempt,          \* provider: the attempt of the run its snapshots describe
    first,            \* the output directory as the first invocation left it
    fnArg,            \* a function applied on its own: its name and argument
    fnResult          \* a function applied on its own: its result

vars == <<pc, args, now, remote, start_ts, run_id, runs, run, conclusion,
          failure_detected, jobIdx, dirs, files, artifacts, summary, exc,
          exitStatus, trace, observed, runJson, stable, settled, invocation,
          attempt, first, fnArg, fnResult>>

\* the state of the functions applied on their own
pureVars == <<fnArg, fnResult>>

\* the state that outlives one invocation of the program
rerunVars == <<stable, invocation, attempt, first>>

----------------------------------------------------------------------------
(* Bounds of the model *)

MaxPolls == 3        \* polls of the monitor loop
MaxListings == 2     \* listings requested by the locator
MaxJobs == 1         \* jobs in a run snapshot
MaxOldRuns == 1      \* runs that exist before the program starts
MaxClock == 3        \* last clock tick
MaxNameRuns == 2     \* runs of like characters in a job name
TicksPerSecond == 2  \* clock ticks in one second
BaseSecond == 9      \* the second in which tick 0 lies

----------------------------------------------------------------------------
(* Values *)

NoneValue == "<None>"          \* Python None / an absent JSON key
NoRunId == -1                  \* args.run_id is None
NoId == -1                     \* job.get("databaseId") is None
NoTimestamp == <<-1>>          \* a key "createdAt" that is absent
Running == -1                  \* the process has not exited

\* variant: a conclusion is missing from the set
FailConclusionsWithoutTimedOut ==
    {"failure", "cancelled", "startup_failure", "action_required"}

FAIL_CONCLUSIONS ==
    {"failure", "cancelled", "timed_out", "startup_failure", "action_required"}

\* the conclusions GitHub reports, the empty string and None
AllConclusions ==
    {"failure", "cancelled", "timed_out", "startup_failure", "action_required",
     "success", "skipped", "neutral", "", NoneValue}

Statuses == {"in_progress", "completed"}
RunConclusions == {"", "success", "failure"}
JobConclusions == {"success", "failure"}

ArgRunIds == {NoRunId, 0}
ArgRefs == {NoneValue, "", "main"}

OldRunIds == 1..MaxOldRuns
NewRunId == MaxOldRuns + 1

----------------------------------------------------------------------------
(* Pure functions *)

Min(a, b) == IF a <= b THEN a ELSE b

\* Python truthiness of a string or None (not args.ref)
TruthyStr(s) == s # NoneValue /\ s # ""

\* variant: every job id counts as present
TruthyAlways(n) == n = n

\* Python truthiness of an int or None (not job_id)
TruthyInt(n) == n # NoId /\ n # 0

\* Python's str < str: lexicographic on the characters
StrLess(a, b) ==
    \E k \in 1..(Min(Len(a), Len(b)) + 1) :
        /\ \A i \in 1..(k - 1) : a[i] = b[i]
        /\ \/ k > Len(a) /\ k <= Len(b)
           \/ k <= Len(a) /\ k <= Len(b) /\ a[k] < b[k]

\* variant: > in place of >=
StrGreater(a, b) == StrLess(b, a)

\* Python's str >= str
StrGE(a, b) == ~StrLess(a, b)

\* isoformat(): fixed-width, zero-padded fields (the seconds field is kept)
IsoFormat(sec) == <<sec \div 10, sec % 10>>

\* datetime.utcnow().replace(microsecond=0).isoformat() + "Z"
iso_now_utc(tick) == IsoFormat(BaseSecond + (tick \div TicksPerSecond))

\* run.get("createdAt", "")
GetCreatedAt(r) == IF r.createdAt = NoTimestamp THEN <<>> ELSE r.createdAt

\* the test of wait_for_run_id's scan
Qualifies(r, ts) == StrGE(GetCreatedAt(r), ts)

\* variant: the scan returns the newest run, whenever it was created
FirstListed(listing, ts) == IF Len(listing) > 0 THEN 1 ELSE 0

\* the scan of wait_for_run_id: the index of the first qualifying run, 0 if none
FirstQualifying(listing, ts) ==
    IF \E i \in 1..Len(listing) : Qualifies(listing[i], ts)
    THEN CHOOSE i \in 1..Len(listing) :
            /\ Qualifies(listing[i], ts)
            /\ \A j \in 1..(i - 1) : ~Qualifies(listing[j], ts)
    ELSE 0

\* Job names and file names are strings in run-length form: a sequence of
\* runs [cls, n], n >= 1 characters of one class.  The classes are "w" (a
\* letter, a digit or an underscore of the name), ".", "-", " " (whitespace),
\* "/" (any other character) and "_" (the separator re.sub puts in).
Chars(cls, n) == [cls |-> cls, n |-> n]

\* a job without the key "name"
NoName == <<Chars("absent", 1)>>

\* characters matched by [^\w.-]
Replaced(cls) == cls \in {" ", "/"}

RECURSIVE LStrip(_)
LStrip(v) ==
    IF v # <<>> /\ Head(v).cls = " " THEN LStrip(Tail(v)) ELSE v

RECURSIVE RStrip(_)
RStrip(v) ==
    IF v # <<>> /\ v[Len(v)].cls = " " THEN RStrip(SubSeq(v, 1, Len(v) - 1)) ELSE v

\* str.strip()
Strip(v) == RStrip(LStrip(v))

RECURSIVE SkipReplaced(_)
SkipReplaced(v) ==
    IF v # <<>> /\ Replaced(Head(v).cls) THEN SkipReplaced(Tail(v)) ELSE v

\* re.sub(r"[^\w.-]+", "_", v): every maximal block of matched characters
\* becomes one separator
RECURSIVE Sub(_)
Sub(v) ==
    IF v = <<>> THEN <<>>
    ELSE IF Replaced(Head(v).cls)
         THEN <<Chars("_", 1)>> \o Sub(SkipReplaced(v))
         ELSE <<Head(v)>> \o Sub(Tail(v))

\* the bound of value[:120]
MaxFileNameLen == 120

\* value[:k]
RECURSIVE Take(_, _)
Take(v, k) ==
    IF v = <<>> \/ k <= 0 THEN <<>>
    ELSE IF Head(v).n <= k
         THEN <<Head(v)>> \o Take(Tail(v), k - Head(v).n)
         ELSE <<Chars(Head(v).cls, k)>>

\* len(value)
RECURSIVE StrLen(_)
StrLen(v) == IF v = <<>> THEN 0 ELSE Head(v).n + StrLen(Tail(v))

\* the default name "job"
DefaultName == <<Chars("w", 3)>>

\* sanitize_filename(value)
sanitize_filename(value) ==
    LET v == Sub(Strip(value))
    IN  IF v # <<>> THEN Take(v, MaxFileNameLen) ELSE DefaultName

\* conclusion in FAIL_CONCLUSIONS
IsFailing(c) == c \in FAIL_CONCLUSIONS

\* failed_jobs = [j for j in jobs if j.get("conclusion") in FAIL_CONCLUSIONS]
failed_jobs(jobs) == SelectSeq(jobs, LAMBDA j : IsFailing(j.conclusion))

\* variant: the cancel test does not look at the status
ShouldCancelAnyStatus(snap) == failed_jobs(snap.jobs) # <<>>

\* if failed_jobs and status != "completed"
ShouldCancel(snap) ==
    failed_jobs(snap.jobs) # <<>> /\ snap.status # "completed"

\* variant: the flag is overwritten by the final conclusion instead of or-ed
FinalFailureOverwrites(fd, c) == IsFailing(c)

\* variant: the final conclusion is not looked at
FinalFailureKeepsFlag(fd, c) == fd /\ c = c

\* failure_detected or (conclusion in FAIL_CONCLUSIONS)
FinalFailure(fd, c) == fd \/ IsFailing(c)

\* variant: the loop tests the status against a conclusion
LoopEndsOnSuccess(status) == status = "success"

\* if status == "completed": ... break
LoopEnds(status) == status = "completed"

\* variant: the logs are collected for a successful run only
AfterLoopSkipsOnFailure(fd) == IF fd THEN "summary" ELSE "collect"

\* main continues with download_logs_and_artifacts, whatever the flag is
AfterLoop(fd) == "collect"

\* return 1 / return 0 at the end of main
ExitStatus(fd) == IF fd THEN 1 ELSE 0

\* the status the interpreter exits with when an exception leaves main
UncaughtExitStatus == 1

\* variant: the test for a missing --ref is left out
UsageErrorUnchecked(a) == FALSE

\* run_id is None and not args.ref
UsageError(a) == a.run_id = NoRunId /\ ~TruthyStr(a.ref)

\* return 2
UsageExitStatus == 2

\* variant: the download error is not caught
DownloadErrorPropagates == FALSE

\* except subprocess.CalledProcessError: pass
DownloadErrorIsSwallowed == TRUE

\* run_cmd with capture: result.stdout.strip()
run_cmd_output(stdout) == Strip(stdout)

\* job.get("name", "job")
GetName(job) == IF job.name = NoName THEN DefaultName ELSE job.name

\* os.path.join(args.output, f"run-{run_id}") and its artifacts subdirectory
OutDir(id) == [path |-> "run", id |-> id]
ArtifactsDir(id) == [path |-> "run/artifacts", id |-> id]

\* variant: makedirs without exist_ok raises on a directory that exists
MakeDirsFailsIfPresent(ds, d) == d \in ds

\* os.makedirs(d, exist_ok=True) raises FileExistsError
MakeDirsFails(ds, d) == FALSE

\* variant: the file name leaves the job id out
LogPathWithoutId(id, job_id, job_name) ==
    [dir |-> OutDir(id), job |-> 0, name |-> job_name]

\* os.path.join(out_dir, f"job-{job_id}-{job_name}.log")
LogPath(id, job_id, job_name) ==
    [dir |-> OutDir(id), job |-> job_id, name |-> job_name]

\* variant: the log is appended to the file that exists
AppendFile(fs, path, text) ==
    LET old == {f \in fs : f.path = path}
    IN  (fs \ old) \cup
        {[path |-> path,
          text |-> IF old = {} THEN text ELSE (CHOOSE f \in old : TRUE).text \o text]}

\* open(path, "w").write(text): the file holds the text, whatever it held
WriteFile(fs, path, text) ==
    {f \in fs : f.path # path} \cup {[path |-> path, text |-> text]}

\* variant: the collector works on the run id given on the command line
ArgsRunId == args.run_id

\* the run id main passes to download_logs_and_artifacts
CollectorRunId == run_id

----------------------------------------------------------------------------
(* The provider *)

Call(op, by, arg) == [op |-> op, by |-> by, arg |-> arg]

Count(op, by) ==
    Cardinality({i \in 1..Len(trace) : trace[i].op = op /\ trace[i].by = by})

\* what `gh run list --json databaseId,createdAt,...` prints for a run
ListedRun(r) ==
    [databaseId |-> r.databaseId,
     createdAt |-> IF r.created < 0 THEN NoTimestamp
                   ELSE IsoFormat(BaseSecond + (r.created \div TicksPerSecond))]

\* the listings the provider may return: some of its runs, in some order
Listings(rs) ==
    UNION {{[i \in 1..n |-> ListedRun(f[i])] :
               f \in {g \in [1..n -> rs] : \A i, j \in 1..n : g[i] = g[j] => i = j}} :
           n \in 0..Cardinality(rs)}

\* the job name "build / test"
BuildTest ==
    <<Chars("w", 5), Chars(" ", 1), Chars("/", 1), Chars(" ", 1), Chars("w", 4)>>

JobNames == {NoName, BuildTest}

JobsAt(i) ==
    [databaseId : {NoId, 100 + i}, name : JobNames, conclusion : JobConclusions]

AllJobs == UNION {JobsAt(i) : i \in 1..MaxJobs}

JobLists ==
    UNION {{js \in [1..n -> AllJobs] : \A i \in 1..n : js[i] \in JobsAt(i)} :
           n \in 0..MaxJobs}

\* the snapshots `gh run view --json status,conclusion,updatedAt,jobs` may print:
\* a completed run has a conclusion
Snapshots ==
    {s \in [status : Statuses, conclusion : RunConclusions, jobs : JobLists] :
        s.status = "completed" => s.conclusion # ""}

NoSnapshot == [status |-> NoneValue, conclusion |-> NoneValue, jobs |-> <<>>]

CompletedSnapshots == {s \in Snapshots : s.status = "completed"}

\* the snapshots of a stable run: every job has the same name, and a run in
\* progress has no conclusion yet
StableSnapshots ==
    {s \in Snapshots :
        /\ s.status # "completed" => s.conclusion = ""
        /\ \A i \in 1..Len(s.jobs) : s.jobs[i].name = BuildTest}

\* a snapshot of attempt k of a run: a re-run keeps the run id and gives its
\* jobs ids that no job of an earlier attempt has
Attempt(s, k) ==
    [s EXCEPT !.jobs =
        [i \in 1..Len(s.jobs) |->
            IF s.jobs[i].databaseId = NoId THEN s.jobs[i]
            ELSE [s.jobs[i] EXCEPT !.databaseId = @ + MaxJobs * (k - 1)]]]

\* what get_run may return: for a stable run the snapshot it settled on, and
\* before that any of its snapshots; otherwise any snapshot, a run that was
\* returned completed staying completed
Responses ==
    IF stable
    THEN IF settled # NoSnapshot THEN {settled}
         ELSE {Attempt(s, attempt) : s \in StableSnapshots}
    ELSE IF run.status = "completed" THEN CompletedSnapshots
    ELSE Snapshots

\* a stable run settles on the first completed snapshot the provider returns
Settle(snap) == IF stable /\ snap.status = "completed" THEN snap ELSE settled

\* what `gh run view --log --job` prints for a job: text that differs from job
\* to job and ends with a newline
RawLog(job_id) == <<Chars("w", job_id), Chars(" ", 1)>>

\* runs that exist before the program starts at tick `t`: each was created at
\* an earlier tick (created = -1: the listing gives it no createdAt)
OldRuns(t) ==
    {rs \in SUBSET [databaseId : OldRunIds, created : -1..(t - 1)] :
        \A a, b \in rs : a.databaseId = b.databaseId => a = b}

----------------------------------------------------------------------------
(* Initial states *)

NoOutput == [dirs |-> {}, files |-> {}, runJson |-> NoSnapshot]

NoArg == [fn |-> "none", val |-> <<>>]

\* the job names the sanitizer is applied to
AllNames ==
    UNION {[1..n -> [cls : {"w", ".", "-", " ", "/"}, n : {1, MaxFileNameLen}]] :
           n \in 0..MaxNameRuns}

\* the variables of main and of the output root before main runs
Fresh ==
    /\ start_ts = NoTimestamp
    /\ run_id = NoRunId
    /\ runs = <<>>
    /\ run = NoSnapshot
    /\ conclusion = NoneValue
    /\ failure_detected = FALSE
    /\ jobIdx = 0
    /\ dirs = {}
    /\ files = {}
    /\ artifacts = "none"
    /\ summary = "none"
    /\ exc = "none"
    /\ exitStatus = Running
    /\ trace = <<>>
    /\ observed = [anyJob |-> FALSE, early |-> FALSE]
    /\ runJson = NoSnapshot
    /\ settled = NoSnapshot
    /\ invocation = 1
    /\ attempt = 1
    /\ first = NoOutput
    /\ fnResult = <<>>

InitWith(worlds) ==
    /\ pc = "main"
    /\ args \in [run_id : ArgRunIds, ref : ArgRefs]
    /\ \E w \in worlds : now = w.now /\ remote = w.remote
    /\ fnArg = NoArg
    /\ Fresh

\* a workflow that has no earlier run on the ref, started at the last tick
Init == InitWith({[now |-> MaxClock, remote |-> {}]}) /\ stable = FALSE

\* a workflow with earlier runs on the ref
InitLocate ==
    InitWith(UNION {{[now |-> t, remote |-> rs] : rs \in OldRuns(t)} :
                    t \in 0..MaxClock})
    /\ stable = FALSE

\* the program given the id of a stable run
InitRerun ==
    /\ pc = "main"
    /\ args = [run_id |-> 0, ref |-> NoneValue]
    /\ now = MaxClock
    /\ remote = {}
    /\ stable = TRUE
    /\ fnArg = NoArg
    /\ Fresh

\* one function of the program, about to be applied to one argument
InitPure ==
    /\ pc = "apply"
    /\ args = [run_id |-> NoRunId, ref |-> NoneValue]
    /\ now = 0
    /\ remote = {}
    /\ stable = FALSE
    /\ \/ \E c \in AllConclusions : fnArg = [fn |-> "classify", val |-> c]
       \/ \E v \in AllNames : fnArg = [fn |-> "sanitize", val |-> v]
    /\ Fresh

----------------------------------------------------------------------------
(* Steps of the program *)

\* a provider call fails: CalledProcessError leaves main through sys.exit(main())
Raise ==
    /\ exc' = "CalledProcessError"
    /\ exitStatus' = UncaughtExitStatus
    /\ pc' = "exit"

\* main, lines 130-135: choose between monitoring a given run and starting one
Main ==
    /\ pc = "main"
    /\ IF args.run_id # NoRunId
       THEN /\ run_id' = args.run_id
            /\ pc' = "get_run"
            /\ UNCHANGED <<start_ts, exitStatus>>
       ELSE IF UsageError(args)
       THEN /\ exitStatus' = UsageExitStatus
            /\ pc' = "exit"
            /\ UNCHANGED <<start_ts, run_id>>
       ELSE /\ start_ts' = iso_now_utc(now)
            /\ pc' = "start_run"
            /\ UNCHANGED <<run_id, exitStatus>>
    /\ UNCHANGED <<args, now, remote, runs, run, conclusion, failure_detected,
                   jobIdx, dirs, files, artifacts, summary, exc, trace, observed>>
    /\ UNCHANGED <<pureVars, rerunVars>>
    /\ UNCHANGED <<runJson, settled>>

\* main, lines 136-139: gh workflow run
StartRun ==
    /\ pc = "start_run"
    /\ trace' = Append(trace, Call("startRun", "main", 0))
    /\ \/ /\ Raise
          /\ UNCHANGED remote
       \/ /\ \E c \in now..MaxClock :
                remote' = remote \cup {[databaseId |-> NewRunId, created |-> c]}
          /\ pc' = "list_runs"
          /\ UNCHANGED <<exc, exitStatus>>
    /\ UNCHANGED <<args, now, start_ts, run_id, runs, run, conclusion,
                   failure_detected, jobIdx, dirs, files, artifacts, summary,
                   observed>>
    /\ UNCHANGED <<pureVars, rerunVars>>
    /\ UNCHANGED <<runJson, settled>>

\* wait_for_run_id, lines 44-61: list the runs and scan the listing
WaitForRunId ==
    /\ pc = "list_runs"
    /\ trace' = Append(trace, Call("listRuns", "locator", 0))
    /\ \/ /\ Raise
          /\ UNCHANGED <<runs, run_id>>
       \/ /\ \E listing \in Listings(remote) :
                /\ runs' = listing
                /\ LET i == FirstQualifying(listing, start_ts)
                   IN  IF i # 0
                       THEN run_id' = listing[i].databaseId /\ pc' = "get_run"
                       ELSE run_id' = run_id /\ pc' = "locate_sleep"
          /\ UNCHANGED <<exc, exitStatus>>
    /\ UNCHANGED <<args, now, remote, start_ts, run, conclusion,
                   failure_detected, jobIdx, dirs, files, artifacts, summary,
                   observed>>
    /\ UNCHANGED <<pureVars, rerunVars>>
    /\ UNCHANGED <<runJson, settled>>

\* wait_for_run_id, line 62: time.sleep(poll)
LocateSleep ==
    /\ pc = "locate_sleep"
    /\ Count("listRuns", "locator") < MaxListings
    /\ trace' = Append(trace, Call("sleep", "locator", 0))
    /\ pc' = "list_runs"
    /\ UNCHANGED <<args, now, remote, start_ts, run_id, runs, run, conclusion,
                   failure_detected, jobIdx, dirs, files, artifacts, summary,
                   exc, exitStatus, observed>>
    /\ UNCHANGED <<pureVars, rerunVars>>
    /\ UNCHANGED <<runJson, settled>>

\* variant: the tick sleeps before the completed test is acted on
FinishTickSleepsFirst(fd) ==
    /\ failure_detected' =
          IF LoopEnds(run'.status) THEN FinalFailure(fd, conclusion') ELSE fd
    /\ pc' = "poll_sleep"

\* main, lines 158-162: the completed test that ends a tick; `fd` is the flag
\* as the cancel test left it
FinishTick(fd) ==
    IF LoopEnds(run'.status)
    THEN /\ failure_detected' = FinalFailure(fd, conclusion')
         /\ pc' = AfterLoop(failure_detected')
    ELSE /\ failure_detected' = fd
         /\ pc' = "poll_sleep"

\* main, lines 145-162: one poll of the monitor loop, up to the cancel request
MonitorPoll ==
    /\ pc = "get_run"
    /\ trace' = Append(trace, Call("getRun", "monitor", run_id))
    /\ \/ /\ Raise
          /\ UNCHANGED <<run, conclusion, failure_detected, observed, settled>>
       \/ /\ \E snap \in Responses :
                /\ run' = snap
                /\ settled' = Settle(snap)
                /\ conclusion' = snap.conclusion
                /\ observed' =
                      [anyJob |-> observed.anyJob
                                  \/ \E i \in 1..Len(snap.jobs) :
                                        snap.jobs[i].conclusion \in FAIL_CONCLUSIONS,
                       early |-> observed.early
                                 \/ /\ snap.status # "completed"
                                    /\ \E i \in 1..Len(snap.jobs) :
                                          snap.jobs[i].conclusion \in FAIL_CONCLUSIONS]
                /\ IF ShouldCancel(snap)
                   THEN failure_detected' = TRUE /\ pc' = "cancel_run"
                   ELSE FinishTick(failure_detected)
          /\ UNCHANGED <<exc, exitStatus>>
    /\ UNCHANGED <<args, now, remote, start_ts, run_id, runs, jobIdx, dirs,
                   files, artifacts, summary, runJson>>
    /\ UNCHANGED <<pureVars, rerunVars>>

\* main, line 156 and lines 158-162: cancel_run, then the completed test
CancelRun ==
    /\ pc = "cancel_run"
    /\ trace' = Append(trace, Call("cancelRun", "monitor", run_id))
    /\ UNCHANGED <<run, conclusion>>
    /\ \/ /\ Raise
          /\ UNCHANGED failure_detected
       \/ /\ FinishTick(failure_detected)
          /\ UNCHANGED <<exc, exitStatus>>
    /\ UNCHANGED <<args, now, remote, start_ts, run_id, runs, jobIdx, dirs,
                   files, artifacts, summary, observed>>
    /\ UNCHANGED <<pureVars, rerunVars>>
    /\ UNCHANGED <<runJson, settled>>

\* main, line 162: time.sleep(args.poll)
PollSleep ==
    /\ pc = "poll_sleep"
    /\ Count("getRun", "monitor") < MaxPolls
    /\ trace' = Append(trace, Call("sleep", "monitor", 0))
    /\ pc' = "get_run"
    /\ UNCHANGED <<args, now, remote, start_ts, run_id, runs, run, conclusion,
                   failure_detected, jobIdx, dirs, files, artifacts, summary,
                   exc, exitStatus, observed>>
    /\ UNCHANGED <<pureVars, rerunVars>>
    /\ UNCHANGED <<runJson, settled>>

\* an os or provider error leaves main through sys.exit(main())
RaiseError(e) ==
    /\ exc' = e
    /\ exitStatus' = UncaughtExitStatus
    /\ pc' = "exit"

\* download_logs_and_artifacts, lines 85-90: makedirs, get_run, run.json
CollectRun ==
    /\ pc = "collect"
    /\ IF MakeDirsFails(dirs, OutDir(CollectorRunId))
       THEN /\ RaiseError("FileExistsError")
            /\ UNCHANGED <<dirs, trace, run, runJson, jobIdx, settled>>
       ELSE /\ dirs' = dirs \cup {OutDir(CollectorRunId)}
            /\ trace' = Append(trace, Call("getRun", "collector", CollectorRunId))
            /\ \/ /\ Raise
                  /\ UNCHANGED <<run, runJson, jobIdx, settled>>
               \/ /\ \E snap \in Responses :
                        /\ run' = snap
                        /\ settled' = Settle(snap)
                        /\ runJson' = snap
                  /\ jobIdx' = 1
                  /\ pc' = "job_log"
                  /\ UNCHANGED <<exc, exitStatus>>
    /\ UNCHANGED <<args, now, remote, start_ts, run_id, runs, conclusion,
                   failure_detected, files, artifacts, summary, observed>>
    /\ UNCHANGED <<pureVars, rerunVars>>

\* download_logs_and_artifacts, lines 91-101: one iteration of the job loop
CollectJobLog ==
    /\ pc = "job_log"
    /\ jobIdx <= Len(run.jobs)
    /\ LET job == run.jobs[jobIdx]
           job_id == job.databaseId
           job_name == sanitize_filename(GetName(job))
       IN  IF ~TruthyInt(job_id)
           THEN /\ jobIdx' = jobIdx + 1
                /\ UNCHANGED <<pc, files, trace, exc, exitStatus>>
           ELSE /\ trace' = Append(trace, Call("fetchJobLog", "collector", job_id))
                /\ \/ /\ Raise
                      /\ UNCHANGED <<files, jobIdx>>
                   \/ /\ files' = WriteFile(files,
                                            LogPath(CollectorRunId, job_id, job_name),
                                            run_cmd_output(RawLog(job_id)))
                      /\ jobIdx' = jobIdx + 1
                      /\ UNCHANGED <<pc, exc, exitStatus>>
    /\ UNCHANGED <<args, now, remote, start_ts, run_id, runs, run, conclusion,
                   failure_detected, dirs, artifacts, summary, observed>>
    /\ UNCHANGED <<pureVars, rerunVars>>
    /\ UNCHANGED <<runJson, settled>>

\* download_logs_and_artifacts, lines 103-111: the artifact download
CollectArtifacts ==
    /\ pc = "job_log"
    /\ jobIdx > Len(run.jobs)
    /\ IF MakeDirsFails(dirs, ArtifactsDir(CollectorRunId))
       THEN /\ RaiseError("FileExistsError")
            /\ UNCHANGED <<dirs, trace, artifacts>>
       ELSE /\ dirs' = dirs \cup {ArtifactsDir(CollectorRunId)}
            /\ trace' =
                  Append(trace, Call("downloadArtifacts", "collector", CollectorRunId))
            /\ \/ /\ artifacts' = "downloaded"
                  /\ pc' = "summary"
                  /\ UNCHANGED <<exc, exitStatus>>
               \/ /\ artifacts' = "failed"
                  /\ IF DownloadErrorIsSwallowed
                     THEN pc' = "summary" /\ UNCHANGED <<exc, exitStatus>>
                     ELSE Raise
    /\ UNCHANGED <<args, now, remote, start_ts, run_id, runs, run, conclusion,
                   failure_detected, jobIdx, files, summary, observed>>
    /\ UNCHANGED <<pureVars, rerunVars>>
    /\ UNCHANGED <<runJson, settled>>

\* main, lines 167-171: the summary line and the exit status
Summary ==
    /\ pc = "summary"
    /\ summary' = IF failure_detected THEN "failed" ELSE "succeeded"
    /\ exitStatus' = ExitStatus(failure_detected)
    /\ pc' = "exit"
    /\ UNCHANGED <<args, now, remote, start_ts, run_id, runs, run, conclusion,
                   failure_detected, jobIdx, dirs, files, artifacts, exc, trace,
                   observed>>
    /\ UNCHANGED <<pureVars, rerunVars>>
    /\ UNCHANGED <<runJson, settled>>

\* a second invocation with the same --run-id and --output, after the first
\* one has printed its summary: the output root is what the first one left, and
\* the run is as it was or has been re-run in between
Rerun ==
    /\ pc = "exit"
    /\ summary # "none"
    /\ args.run_id # NoRunId
    /\ invocation = 1
    /\ invocation' = 2
    /\ \/ attempt' = attempt /\ settled' = settled
       \/ attempt' = attempt + 1 /\ settled' = NoSnapshot
    /\ first' = [dirs |-> dirs, files |-> files, runJson |-> runJson]
    /\ pc' = "main"
    /\ start_ts' = NoTimestamp
    /\ run_id' = NoRunId
    /\ runs' = <<>>
    /\ run' = NoSnapshot
    /\ conclusion' = NoneValue
    /\ failure_detected' = FALSE
    /\ jobIdx' = 0
    /\ artifacts' = "none"
    /\ summary' = "none"
    /\ exc' = "none"
    /\ exitStatus' = Running
    /\ trace' = <<>>
    /\ observed' = [anyJob |-> FALSE, early |-> FALSE]
    /\ UNCHANGED <<args, now, remote, dirs, files, runJson, stable, pureVars>>

\* the test `conclusion in FAIL_CONCLUSIONS`, applied on its own
ApplyClassifier ==
    /\ pc = "apply"
    /\ fnArg.fn = "classify"
    /\ fnResult' = <<IsFailing(fnArg.val)>>
    /\ pc' = "applied"
    /\ UNCHANGED <<args, now, remote, start_ts, run_id, runs, run, conclusion,
                   failure_detected, jobIdx, dirs, files, artifacts, summary,
                   exc, exitStatus, trace, observed, runJson, settled, fnArg,
                   rerunVars>>

\* sanitize_filename, applied on its own
ApplySanitize ==
    /\ pc = "apply"
    /\ fnArg.fn = "sanitize"
    /\ fnResult' = sanitize_filename(fnArg.val)
    /\ pc' = "applied"
    /\ UNCHANGED <<args, now, remote, start_ts, run_id, runs, run, conclusion,
                   failure_detected, jobIdx, dirs, files, artifacts, summary,
                   exc, exitStatus, trace, observed, runJson, settled, fnArg,
                   rerunVars>>

Next ==
    \/ Main
    \/ StartRun
    \/ WaitForRunId
    \/ LocateSleep
    \/ MonitorPoll
    \/ CancelRun
    \/ PollSleep
    \/ CollectRun
    \/ CollectJobLog
    \/ CollectArtifacts
    \/ Summary

Spec == Init /\ [][Next]_vars

\* the program up to the point where the locator hands a run to the monitor
NextLocate ==
    \/ Main
    \/ StartRun
    \/ WaitForRunId
    \/ LocateSleep

SpecLocate == InitLocate /\ [][NextLocate]_vars

\* the functions of the program, each applied on its own
NextPure ==
    \/ ApplyClassifier
    \/ ApplySanitize

SpecPure == InitPure /\ [][NextPure]_vars

\* the program invoked on a stable run, and invoked again on the same run
NextRerun ==
    \/ Main
    \/ MonitorPoll
    \/ CancelRun
    \/ PollSleep
    \/ CollectRun
    \/ CollectJobLog
    \/ CollectArtifacts
    \/ Summary
    \/ Rerun

SpecRerun == InitRerun /\ [][NextRerun]_vars

\* the program given the id of a stable run, as a process that keeps running
NextLive ==
    \/ Main
    \/ MonitorPoll
    \/ CancelRun
    \/ PollSleep
    \/ CollectRun
    \/ CollectJobLog
    \/ CollectArtifacts
    \/ Summary

SpecLive == InitRerun /\ [][NextLive]_vars /\ WF_vars(NextLive)

----------------------------------------------------------------------------
(* Properties *)

Exited == exitStatus # Running

Cancels == Count("cancelRun", "monitor")
Polls == Count("getRun", "monitor")
Sleeps == Count("sleep", "monitor")

\* the provider call that raised was one of the monitor loop's
MonitorAborted == exc # "none" /\ trace[Len(trace)].by = "monitor"

CollectorInvoked ==
    \E i \in 1..Len(trace) : trace[i] = Call("getRun", "collector", run_id)

NoFailingJob(snap) ==
    \A i \in 1..Len(snap.jobs) : snap.jobs[i].conclusion \notin FAIL_CONCLUSIONS

\* C1: once failure_detected is true it is true after every later step, whatever
\* the later snapshots contain, and the summary exit status computed from it is 1.
C1_FailureDetectedMonotonic ==
    [][failure_detected =>
          /\ failure_detected'
          /\ (summary' # "none" => exitStatus' = 1)]_vars

\* C1 witness: the flag is set, and the loop has ended on a later snapshot that
\* shows neither a failing job nor a failing conclusion.
C1_Witness ==
    /\ pc = "collect"
    /\ failure_detected
    /\ Polls >= 2
    /\ NoFailingJob(run)
    /\ conclusion \notin FAIL_CONCLUSIONS

\* C2 (as claimed): when a job fails before the run is completed and the run
\* later reports completed, exactly one cancel request was issued over the whole
\* execution, and failure_detected holds before the completed snapshot is seen.
C2_ExactlyOneCancel ==
    /\ (observed.early /\ pc \in {"cancel_run", "poll_sleep", "get_run"}
           => failure_detected)
    /\ (observed.early /\ pc = "collect" => Cancels = 1)

\* C3 (as claimed): the summary exit status is 1 if any job of a polled snapshot
\* or the final run conclusion is in FAIL_CONCLUSIONS, and 0 otherwise.
C3_ExitStatusReflectsAnyFailure ==
    summary # "none" =>
        exitStatus = IF observed.anyJob \/ conclusion \in FAIL_CONCLUSIONS
                     THEN 1 ELSE 0

\* C4 (as claimed): whenever the process has exited with failure_detected true,
\* the collector was invoked for the run, also when the cancel request failed.
C4_CollectorNeverSkipped ==
    Exited /\ failure_detected => CollectorInvoked

\* C4 (amended): when the process has exited with failure_detected true and no
\* provider call of the monitor loop failed, the collector was invoked for the
\* run; when a call of the monitor loop failed (the cancel request, or a poll),
\* the process has aborted and the collector was not invoked.
C4_CollectorUnlessMonitorAborts ==
    /\ (Exited /\ failure_detected /\ ~MonitorAborted => CollectorInvoked)
    /\ (Exited /\ MonitorAborted => ~CollectorInvoked /\ dirs = {})

\* C4 witness: a cancel request was issued, the run completed, the collector
\* ran and the process has exited with the failure summary.
C4_Witness ==
    /\ summary = "failed"
    /\ Cancels >= 1
    /\ CollectorInvoked

\* C5 (as claimed): when a provider call other than the artifact download fails,
\* the failed call is the last provider call made and the exit status is
\* non-zero and differs from the failure-detected status 1.
C5_AbortStatusDistinct ==
    exc # "none" =>
        /\ trace[Len(trace)].op \in
               {"startRun", "listRuns", "getRun", "cancelRun", "fetchJobLog"}
        /\ exitStatus \notin {0, 1}

\* the seconds an ISO timestamp string stands for
Seconds(ts) == ts[1] * 10 + ts[2]

\* createdAt >= triggerTimestamp, as instants
CreatedAtOrAfter(r, ts) ==
    r.createdAt # NoTimestamp /\ Seconds(r.createdAt) >= Seconds(ts)

Located == pc = "get_run" /\ args.run_id = NoRunId

\* C6: the locator returns the id of the first run, in list order, of the first
\* listing that holds a run with createdAt >= the trigger timestamp; a listing
\* it sleeps on holds no such run, and a run created earlier or without
\* createdAt is never returned.
C6_LocatorReturnsFirstQualifying ==
    /\ (pc = "locate_sleep" =>
           \A i \in 1..Len(runs) : ~CreatedAtOrAfter(runs[i], start_ts))
    /\ (Located =>
           \E i \in 1..Len(runs) :
              /\ runs[i].databaseId = run_id
              /\ CreatedAtOrAfter(runs[i], start_ts)
              /\ \A j \in 1..(i - 1) : ~CreatedAtOrAfter(runs[j], start_ts))

\* C6 witness: the returned run is the second of its listing, behind a run
\* created before the trigger timestamp.
C6_Witness ==
    /\ Located
    /\ Len(runs) >= 2
    /\ runs[1].createdAt # NoTimestamp
    /\ Seconds(runs[1].createdAt) < Seconds(start_ts)
    /\ runs[2].databaseId = run_id

\* C7 (as claimed): the run handed to the monitor after a trigger is never a
\* run that existed before the run-start request was issued.
C7_NeverPreExistingRun ==
    Located => run_id \notin OldRunIds

\* C8: with no run id and no ref the process makes no provider call, writes
\* nothing, and exits with status 2.
C8_UsageErrorBeforeAnyCall ==
    (args.run_id = NoRunId /\ args.ref \in {NoneValue, ""}) =>
        /\ trace = <<>>
        /\ dirs = {} /\ files = {} /\ runJson = NoSnapshot
        /\ pc \in {"main", "exit"}
        /\ (pc = "exit" => exitStatus = 2 /\ exc = "none" /\ summary = "none")

\* C8 witness: the process has exited on the usage error.
C8_Witness ==
    /\ args.run_id = NoRunId /\ args.ref = NoneValue
    /\ pc = "exit" /\ exitStatus = 2

RunJsonWritten == runJson # NoSnapshot

LogsWritten ==
    \A i \in 1..Len(run.jobs) :
        run.jobs[i].databaseId \notin {NoId, 0} =>
            \E f \in files : f.path.job = run.jobs[i].databaseId

\* C9: after the artifact download, failed or not, the collector has returned
\* with run.json and every job log written, no exception is raised, and the
\* process exits with the summary and the status failure_detected dictates.
C9_DownloadFailureSwallowed ==
    artifacts # "none" =>
        /\ exc = "none"
        /\ pc \in {"summary", "exit"}
        /\ RunJsonWritten /\ LogsWritten
        /\ (pc = "exit" =>
               /\ summary = (IF failure_detected THEN "failed" ELSE "succeeded")
               /\ exitStatus = (IF failure_detected THEN 1 ELSE 0))

\* C9 witness: the download failed, a job log was written, and the process has
\* exited with status 0.
C9_Witness ==
    /\ artifacts = "failed"
    /\ files # {}
    /\ pc = "exit" /\ exitStatus = 0

MonitorEvents == SelectSeq(trace, LAMBDA e : e.by = "monitor")

MonitorDone == pc \in {"collect", "job_log", "summary"} \/ summary # "none"

\* C10: the monitor sleeps exactly once between consecutive polls and never
\* after the poll that observes "completed"; a run that is completed with a
\* failing conclusion on the first poll is flagged after that one poll, with no
\* sleep and no cancel request, and exits with status 1.
C10_NoSleepAfterCompleted ==
    LET m == MonitorEvents
    IN  /\ \A i \in 1..Len(m) :
              m[i].op = "sleep" => i > 1 /\ m[i - 1].op \in {"getRun", "cancelRun"}
        /\ \A i \in 2..Len(m) : m[i].op = "getRun" => m[i - 1].op = "sleep"
        /\ (pc = "poll_sleep" => run.status # "completed")
        /\ (MonitorDone => m[Len(m)].op = "getRun")
        /\ (pc = "collect" /\ Polls = 1 /\ conclusion \in FAIL_CONCLUSIONS =>
               failure_detected /\ Sleeps = 0 /\ Cancels = 0)
        /\ (summary # "none" /\ Polls = 1 /\ conclusion \in FAIL_CONCLUSIONS =>
               exitStatus = 1)

\* C10 witness: the first poll found the run completed with a failing
\* conclusion, and the process has exited.
C10_Witness ==
    /\ summary # "none"
    /\ Polls = 1
    /\ conclusion \in FAIL_CONCLUSIONS
    /\ exitStatus = 1

\* C11: the classifier yields true exactly for failure, cancelled, timed_out,
\* startup_failure and action_required, and false for success, skipped,
\* neutral, the empty string and an absent conclusion.
C11_ClassifierIsMembership ==
    (pc = "applied" /\ fnArg.fn = "classify") =>
        /\ (fnArg.val \in {"failure", "cancelled", "timed_out", "startup_failure",
                           "action_required"}
               => fnResult = <<TRUE>>)
        /\ (fnArg.val \in {"success", "skipped", "neutral", "", NoneValue}
               => fnResult = <<FALSE>>)

\* C11 witness: the classifier was applied to timed_out and said true.
C11_Witness ==
    /\ pc = "applied"
    /\ fnArg = [fn |-> "classify", val |-> "timed_out"]
    /\ fnResult = <<TRUE>>

\* C12 (as claimed): the sanitized name is not empty, holds only word
\* characters, ".", "-" and the separator, is at most 120 characters long, and
\* a name made only of characters outside [\w.-] sanitizes to "job".
C12_SanitizedName ==
    (pc = "applied" /\ fnArg.fn = "sanitize") =>
        /\ fnResult # <<>>
        /\ \A i \in 1..Len(fnResult) :
              fnResult[i].cls \in {"w", ".", "-", "_"} /\ fnResult[i].n >= 1
        /\ StrLen(fnResult) <= 120
        /\ ((\A i \in 1..Len(fnArg.val) : fnArg.val[i].cls \in {" ", "/"})
               => fnResult = <<[cls |-> "w", n |-> 3]>>)

\* the positions in the trace of the calls of one operation
Positions(op) == {i \in 1..Len(trace) : trace[i].op = op}

\* the operations that are addressed to one run
RunOps == {"getRun", "cancelRun", "fetchJobLog", "downloadArtifacts"}

\* the run id every call and every path of the output root carries
OneRunId(id) ==
    /\ \A i \in 1..Len(trace) :
          trace[i].op \in {"getRun", "cancelRun", "downloadArtifacts"}
             => trace[i].arg = id
    /\ \A d \in dirs : d.id = id
    /\ \A f \in files : f.path.dir.id = id

\* where the run id comes from and where it goes, in one state
C13_RunIdFlow ==
    /\ pc = "main" => trace = <<>> /\ run_id = NoRunId
    /\ args.run_id # NoRunId =>
          /\ Positions("startRun") = {} /\ Positions("listRuns") = {}
          /\ start_ts = NoTimestamp
          /\ pc # "main" => run_id = args.run_id
          /\ OneRunId(args.run_id)
    /\ args.run_id = NoRunId =>
          /\ trace # <<>> => start_ts # NoTimestamp
          /\ pc = "start_run" => start_ts # NoTimestamp /\ trace = <<>>
          /\ Positions("startRun") \subseteq {1}
          /\ \A i \in Positions("listRuns") : i > 1 /\ trace[1].op = "startRun"
          /\ \A i \in Positions("getRun") :
                /\ Positions("listRuns") # {}
                /\ \A j \in Positions("listRuns") : j < i
          /\ \A i \in 1..Len(trace) :
                trace[i].op \in RunOps =>
                   \E j \in Positions("getRun") : j <= i /\ trace[j].by = "monitor"
          /\ run_id # NoRunId =>
                /\ FirstQualifying(runs, start_ts) # 0
                /\ run_id = runs[FirstQualifying(runs, start_ts)].databaseId
          /\ OneRunId(run_id)

\* C13: with --run-id the program calls neither startRun nor listRuns and every
\* call and output path carries that id; without it the trigger timestamp is
\* taken before startRun, startRun comes before every listRuns, every listRuns
\* before the first getRun, and the id of the monitor's polls, of the cancel
\* requests, of the collector's calls and of the output directory is the one
\* the locator returned, which no later step changes.
C13_RunIdFromLocatorOnly ==
    [][/\ C13_RunIdFlow'
       /\ run_id # NoRunId => run_id' = run_id]_vars

\* C13 witness: a run the program started and located was polled, cancelled
\* and collected into its output directory.
C13_Witness ==
    /\ args.run_id = NoRunId
    /\ summary # "none"
    /\ Cancels >= 1
    /\ OutDir(run_id) \in dirs
    /\ files # {}

\* the second invocation's collector has returned normally
CollectedAgain == invocation = 2 /\ summary # "none"

\* the provider describes the run to both invocations alike
SameResponses == attempt = 1

\* C14: when the collector runs a second time on the same run and output
\* directory and the provider answers as it did the first time, run.json, the
\* set of job log files and the directories are what the first run left, and
\* the second run never fails on a directory that already exists.
C14_CollectionIdempotent ==
    /\ (CollectedAgain /\ SameResponses) =>
          /\ runJson = first.runJson
          /\ files = first.files
          /\ dirs = first.dirs
    /\ invocation = 2 => exc # "FileExistsError"

\* C14 witness: both invocations collected a run with a job log, into the same
\* output directory and its artifacts directory.
C14_Witness ==
    /\ CollectedAgain
    /\ SameResponses
    /\ first.files # {}
    /\ first.runJson # NoSnapshot
    /\ {OutDir(run_id), ArtifactsDir(run_id)} \subseteq first.dirs

\* where main is while the monitor loop has not ended
BeforeCollector ==
    pc \in {"main", "start_run", "list_runs", "locate_sleep", "get_run",
            "cancel_run", "poll_sleep", "exit"}

\* C15: the monitor loop ends on the poll that returns status "completed" and
\* on no other; once a poll has returned "completed" the collector runs and the
\* process exits with the summary status 0 or 1, unless a provider call fails;
\* while no poll has returned "completed" the collector is not invoked, and
\* every tick that saw the run in progress is followed by another poll.
C15_MonitorEndsExactlyOnCompleted ==
    /\ [][/\ (pc = "get_run" /\ pc' \in {"collect", "summary"})
               => run'.status = "completed"
          /\ (pc = "get_run" /\ run'.status = "completed") => pc' = "collect"
          /\ (pc = "cancel_run" /\ exc' = "none") => pc' = "poll_sleep"]_vars
    /\ [](run.status # "completed" => BeforeCollector /\ ~CollectorInvoked)
    /\ (run.status = "completed")
          ~> (exc # "none"
              \/ (CollectorInvoked /\ summary # "none" /\ exitStatus \in {0, 1}))
    /\ (run.status = "in_progress" /\ pc # "get_run" /\ Polls < MaxPolls)
          ~> (pc = "get_run" \/ exc # "none")

\* C15 witness: the run was in progress on the first poll and completed on a
\* later one; the collector ran and the process exited with status 0.
C15_Witness ==
    /\ Polls >= 2
    /\ CollectorInvoked
    /\ summary # "none"
    /\ exitStatus = 0

Listed == Count("listRuns", "locator")

\* the locator in one state: what it has called so far and what it returned
C16_LocatorState ==
    /\ pc \in {"list_runs", "locate_sleep"} =>
          /\ run_id = NoRunId
          /\ \A i \in 1..Len(trace) : trace[i].op \in {"startRun", "listRuns", "sleep"}
    /\ \A i \in 2..Len(trace) :
          trace[i].by = "locator" =>
             trace[i].op = (IF i % 2 = 0 THEN "listRuns" ELSE "sleep")
    /\ pc = "locate_sleep" =>
          /\ trace[Len(trace)].op = "listRuns"
          /\ \A i \in 1..Len(runs) : ~CreatedAtOrAfter(runs[i], start_ts)
          /\ Listed < MaxListings => ENABLED LocateSleep
    /\ Located =>
          /\ trace[Len(trace)].op = "listRuns"
          /\ Count("sleep", "locator") = Listed - 1
          /\ \E i \in 1..Len(runs) : CreatedAtOrAfter(runs[i], start_ts)
    /\ exc # "none" =>
          /\ pc = "exit"
          /\ run_id = NoRunId
          /\ trace[Len(trace)].op \in {"startRun", "listRuns"}

\* C16: while no listed run was created at or after the trigger timestamp the
\* locator sleeps and lists again, as often as the bound on listings allows,
\* without returning and with no call other than startRun, listRuns and sleep
\* made; it returns on the first listing that holds such a run; after a failed
\* listRuns the program takes no further step.
C16_LocatorRetriesUntilQualifying ==
    [][/\ C16_LocatorState'
       /\ exc = "none"
       /\ pc = "locate_sleep" =>
             pc' = "list_runs" /\ trace' = Append(trace, Call("sleep", "locator", 0))
       /\ (pc = "list_runs" /\ exc' = "none") =>
             IF \E i \in 1..Len(runs') : CreatedAtOrAfter(runs'[i], start_ts)
             THEN pc' = "get_run" ELSE pc' = "locate_sleep"]_vars

\* C16 witness: the locator slept on a listing without a qualifying run and
\* returned on the next one.
C16_Witness ==
    /\ Located
    /\ Count("sleep", "locator") >= 1
    /\ Len(runs) >= 1

\* every cancel request in the trace follows the poll of its tick directly and
\* is the monitor's
CancelsFollowPolls ==
    \A i \in 1..Len(trace) :
        trace[i].op = "cancelRun" =>
           /\ trace[i].by = "monitor"
           /\ i > 1
           /\ trace[i - 1] = Call("getRun", "monitor", run_id)

\* C17: a tick issues a cancel request exactly when its snapshot holds a job
\* with a failing conclusion and its status is not "completed"; no cancel
\* request is issued on the tick that observes "completed", after it, or by the
\* collector; after a cancel request the monitor sleeps and polls again.
C17_CancelIffFailingJobBeforeCompleted ==
    [][/\ (pc = "get_run" /\ exc' = "none") =>
             /\ pc' = "cancel_run"
                   <=> (~NoFailingJob(run') /\ run'.status # "completed")
             /\ Cancels' = Cancels
       /\ pc = "cancel_run" =>
             /\ ~NoFailingJob(run) /\ run.status = "in_progress"
             /\ trace' = Append(trace, Call("cancelRun", "monitor", run_id))
             /\ exc' = "none" => pc' = "poll_sleep"
       /\ pc # "cancel_run" => Cancels' = Cancels
       /\ (pc = "poll_sleep" /\ Cancels >= 1) => pc' = "get_run"
       /\ MonitorDone => pc' # "cancel_run" /\ Cancels' = Cancels
       /\ CancelsFollowPolls']_vars

\* C17 witness: a cancel request was issued, the monitor polled again and saw
\* the run completed with a failing job in the snapshot, and issued no second
\* request.
C17_Witness ==
    /\ pc = "collect"
    /\ Cancels = 1
    /\ Polls >= 2
    /\ ~NoFailingJob(run)

\* download_logs_and_artifacts has returned normally
Collected == pc = "summary" \/ summary # "none"

\* the positions of the collected snapshot's jobs that have an identifier
JobsWithId == {i \in 1..Len(run.jobs) : run.jobs[i].databaseId # NoId}

\* the file job-<jobId>-<sanitizedName>.log of a job, holding its log
JobLogFile(job) ==
    [path |-> [dir |-> OutDir(run_id),
               job |-> job.databaseId,
               name |-> sanitize_filename(GetName(job))],
     text |-> run_cmd_output(RawLog(job.databaseId))]

\* C18 (as claimed): when the collector has returned normally, the job log
\* files in the output directory are exactly the files
\* job-<jobId>-<sanitizedName>.log of the jobs of the collected snapshot that
\* have an id, one per job, each holding the log text fetched for that job;
\* fetchJobLog was called once for each of these jobs and for no other.
C18_OneLogFilePerJobWithId ==
    Collected =>
        /\ files = {JobLogFile(run.jobs[i]) : i \in JobsWithId}
        /\ Cardinality(files) = Cardinality(JobsWithId)
        /\ \A i \in JobsWithId :
              Cardinality({f \in files : f.path.job = run.jobs[i].databaseId}) = 1
        /\ Cardinality(Positions("fetchJobLog")) = Cardinality(JobsWithId)
        /\ \A k \in Positions("fetchJobLog") :
              \E i \in JobsWithId : trace[k].arg = run.jobs[i].databaseId

\* the job log files the output directory held when this invocation started
FilesBefore == IF invocation = 1 THEN {} ELSE first.files

\* C18 (amended): when the collector has returned normally, every job of the
\* collected snapshot that has an id has exactly one file
\* job-<jobId>-<sanitizedName>.log, holding the log text fetched for it, and
\* fetchJobLog was called once for each of these jobs and for no other; the
\* only other job log files in the output directory are files it held before,
\* so that the files are exactly those of the snapshot's jobs when the
\* directory held none before.
C18_OneLogFilePerJobWithIdBesidesOlder ==
    Collected =>
        /\ {JobLogFile(run.jobs[i]) : i \in JobsWithId} \subseteq files
        /\ files \ {JobLogFile(run.jobs[i]) : i \in JobsWithId} \subseteq FilesBefore
        /\ FilesBefore = {} =>
              Cardinality(files) = Cardinality(JobsWithId)
        /\ \A i \in JobsWithId :
              Cardinality({f \in files : f.path.job = run.jobs[i].databaseId}) = 1
        /\ Cardinality(Positions("fetchJobLog")) = Cardinality(JobsWithId)
        /\ \A k \in Positions("fetchJobLog") :
              \E i \in JobsWithId : trace[k].arg = run.jobs[i].databaseId

\* C18 witness: the run was collected, re-run and collected again; the log of
\* the job "build / test" of the second attempt is in the file named after its
\* id and "build_test", next to the log of the first attempt's job.
C18_Witness ==
    /\ Collected
    /\ invocation = 2
    /\ Cardinality(files) > Cardinality(JobsWithId)
    /\ \E i \in JobsWithId :
          /\ run.jobs[i].name = BuildTest
          /\ \E f \in files :
                /\ f.path.job = run.jobs[i].databaseId
                /\ f.path.name = <<Chars("w", 5), Chars("_", 1), Chars("w", 4)>>
                /\ f.text = <<Chars("w", run.jobs[i].databaseId)>>

CollectorEvents == SelectSeq(trace, LAMBDA e : e.by = "collector")

\* the calls a collection of the snapshot `run` makes when none of them fails
RECURSIVE FetchCalls(_)
FetchCalls(jobs) ==
    IF jobs = <<>> THEN <<>>
    ELSE (IF Head(jobs).databaseId # NoId
          THEN <<Call("fetchJobLog", "collector", Head(jobs).databaseId)>>
          ELSE <<>>) \o FetchCalls(Tail(jobs))

CollectorCalls ==
    <<Call("getRun", "collector", run_id)>> \o FetchCalls(run.jobs)
       \o <<Call("downloadArtifacts", "collector", run_id)>>

IsPrefix(p, q) == Len(p) <= Len(q) /\ SubSeq(q, 1, Len(p)) = p

\* the provider calls made since the monitor saw the run completed
C19_CollectorPhase ==
    MonitorDone =>
        /\ LET n == Len(trace) - Len(CollectorEvents)
           IN  /\ SubSeq(trace, n + 1, Len(trace)) = CollectorEvents
               /\ trace[n] = Call("getRun", "monitor", run_id)
        /\ CollectorEvents = <<>> \/ CollectorEvents[1].op = "getRun"
        /\ IsPrefix(CollectorEvents, CollectorCalls)
        /\ Collected => CollectorEvents = CollectorCalls
        /\ \A i \in 1..Len(CollectorEvents) :
              CollectorEvents[i].op \notin {"startRun", "cancelRun", "listRuns"}

\* C19: from the poll that returns "completed" to the exit of the process the
\* provider calls are one getRun, one fetchJobLog for each job of the collected
\* snapshot that has an id, and one downloadArtifacts, in this order, cut short
\* only by a call that fails; startRun and cancelRun are not among them, the
\* provider's runs are left as they are, and failure_detected keeps the value
\* the monitor gave it.
C19_CollectorOnlyReads ==
    [][/\ C19_CollectorPhase'
       /\ MonitorDone =>
             /\ failure_detected' = failure_detected
             /\ remote' = remote
             /\ Cancels' = Cancels]_vars

\* C19 witness: after a cancel request the run completed and was collected,
\* with one job log fetched; the flag is still set.
C19_Witness ==
    /\ Collected
    /\ Cancels >= 1
    /\ failure_detected
    /\ Len(CollectorEvents) >= 3

\* the conclusion of the completed snapshot is a failing one
FinalConclusionFails ==
    conclusion \in {"failure", "cancelled", "timed_out", "startup_failure",
                    "action_required"}

\* C20: when the monitor loop has ended, failure_detected is true exactly when
\* a cancel request was issued during polling, which is when a snapshot that
\* was not completed held a failing job, or the conclusion of the completed
\* snapshot is a failing one; the job conclusions of the completed snapshot
\* change neither the flag nor the exit status.
C20_FlagIsCancelOrFinalConclusion ==
    /\ MonitorDone =>
          /\ failure_detected <=> (Cancels >= 1 \/ FinalConclusionFails)
          /\ Cancels >= 1 <=> observed.early
    /\ pc = "collect" => run.status = "completed" /\ run.conclusion = conclusion
    /\ summary # "none" =>
          exitStatus = IF Cancels >= 1 \/ FinalConclusionFails THEN 1 ELSE 0

\* C20 witness: the completed snapshot holds a failing job and the conclusion
\* success, no cancel request was issued, and the flag is false.
C20_Witness ==
    /\ pc = "collect"
    /\ ~NoFailingJob(run)
    /\ conclusion = "success"
    /\ Cancels = 0
    /\ ~failure_detected

====
